---- MODULE Spec2Model ----
(***************************************************************************)
(* BookArchive: the persistence and concurrency-control layer of the book  *)
(* catalog (src/BookArchive.h, src/main.cpp).                              *)
(*                                                                         *)
(* The model has the SQLite connection (the books table and the prepared   *)
(* statements with their bindings and cursors), the statement cache, the   *)
(* two reader/writer locks, and one program counter per caller.  Every     *)
(* SQLite API call and every lock acquisition is one atomic action.        *)
(***************************************************************************)
EXTENDS Integers, Sequences, FiniteSets, TLC

\* ------------------------------------------------------------------------
\* Bounds of the model and program constants
\* ------------------------------------------------------------------------

\* #define SQLITE_MAX_RETRIES 5
SQLITE_MAX_RETRIES == 5

\* base of the backoff delay, 10 * (1 << retries) milliseconds
BACKOFF_BASE_MS == 10

\* book ids the callers use: 1..MaxId
MaxId == 2

\* a scan stops being followed once it has collected this many rows
MaxRows == 2

\* an INSERT is followed only while no rowid exceeds this
MaxTableId == 3

\* the longest contention: the store refuses at most this many steps in a row
MaxBusy == 6

Ids == 1..MaxId

\* titles, authors and search keywords are sequences of characters
Texts == { <<"A">>, <<"b">> }

Keywords == { <<"a">>, <<"B">>, <<"_">> }

\* the callers of the archive's public operations
Threads == { "t1", "t2" }

\* SQL NULL: a bound value or a column that is no text (no Text has this shape)
NULL == << "<NULL>" >>
NoThread == "none"

\* the five SQL templates of the record operations
SQL_INSERT == "INSERT INTO books (id, title, author) VALUES (?, ?, ?);"
SQL_DELETE == "DELETE FROM books WHERE id = ?;"
SQL_UPDATE == "UPDATE books SET title = ?, author = ? WHERE id = ?;"
SQL_SEARCH == "SELECT * FROM books WHERE title LIKE ? OR author LIKE ? ORDER BY id;"
SQL_LIST == "SELECT * FROM books ORDER BY id;"

Templates == { SQL_INSERT, SQL_DELETE, SQL_UPDATE, SQL_SEARCH, SQL_LIST }

\* ------------------------------------------------------------------------
\* Values: std::to_string, SQLite's integer affinity, LIKE
\* ------------------------------------------------------------------------

Digits == << "0", "1", "2", "3", "4", "5", "6", "7", "8", "9" >>

\* std::to_string(id) for id >= 0: the decimal digits
RECURSIVE to_string(_)
to_string(n) ==
    IF n < 10 THEN << Digits[n + 1] >>
    ELSE to_string(n \div 10) \o << Digits[(n % 10) + 1] >>

DigitValue(c) == CHOOSE d \in 0..9 : Digits[d + 1] = c

\* the INTEGER affinity of column id applied to a bound text of digits
RECURSIVE AsInteger(_)
AsInteger(txt) ==
    IF Len(txt) = 1 THEN DigitValue(txt[1])
    ELSE 10 * AsInteger(SubSeq(txt, 1, Len(txt) - 1)) + DigitValue(txt[Len(txt)])

Lower(c) == CASE c = "A" -> "a" [] c = "B" -> "b" [] OTHER -> c

\* SQLite's LIKE: % matches any run of characters, _ any one character,
\* letters match case-insensitively
RECURSIVE LikeMatch(_, _)
LikeMatch(p, s) ==
    IF p = << >> THEN s = << >>
    ELSE IF Head(p) = "%"
         THEN LikeMatch(Tail(p), s) \/ (s # << >> /\ LikeMatch(p, Tail(s)))
         ELSE /\ s # << >>
              /\ (Head(p) = "_" \/ Lower(Head(p)) = Lower(Head(s)))
              /\ LikeMatch(Tail(p), Tail(s))

\* x LIKE NULL is NULL, which a WHERE clause takes as false
Like(text, pattern) == pattern # NULL /\ LikeMatch(pattern, text)

\* ------------------------------------------------------------------------
\* The books table
\* ------------------------------------------------------------------------

Row(i, t, a) == [id |-> i, title |-> t, author |-> a]

RowIds(tbl) == { r.id : r \in tbl }

MaxRowid(tbl) == IF tbl = {} THEN 0 ELSE CHOOSE m \in RowIds(tbl) : \A i \in RowIds(tbl) : i <= m

\* a table without the PRIMARY KEY constraint on id
NoPrimaryKey(tbl, i) == TRUE

\* CREATE TABLE books (id INTEGER PRIMARY KEY, title TEXT NOT NULL,
\* author TEXT NOT NULL, ...): the constraints an INSERT or UPDATE must pass
PrimaryKeyFree(tbl, i) == \A r \in tbl : r.id # i

NotNullOk(t, a) == t # NULL /\ a # NULL

\* ------------------------------------------------------------------------
\* State
\* ------------------------------------------------------------------------

VARIABLES
    books,              \* the rows of table books
    stmts,              \* the connection's prepared statements, by handle
    busyLeft,           \* how many more sqlite3_step calls the store refuses as busy
    stmt_cache,         \* std::unordered_map<std::string, sqlite3_stmt*>
    stmt_cache_mutex,   \* std::shared_mutex: [w |-> holder, r |-> shared holders]
    db_mutex,           \* std::shared_mutex: [w |-> holder, r |-> shared holders]
    pc,                 \* where each caller is
    op,                 \* the operation each caller runs, with its arguments
    stmt,               \* local sqlite3_stmt* stmt
    bound,              \* how many parameters the caller has bound (loop index i)
    retries,            \* local int retries
    rc,                 \* local int rc
    results,            \* local std::vector<Book> results
    ret,                \* what the operation returned
    attempts,           \* sqlite3_step calls made by the current operation
    slept,              \* the sleeps of the current operation, in milliseconds
    before,             \* the table as it was when the current operation was called
    stack,              \* main()'s frame and, above it, the running signal handlers
    g_archive,          \* whether the global BookArchive* is non-null
    db,                 \* sqlite3* db: "null", "open", or "closed" (not yet nulled)
    log_file,           \* std::ofstream log_file: "unopened", "open", "closed", "destroyed"
    running,            \* std::atomic<bool> running
    status,             \* "running", or how the process ended
    DEBUG_MODE,         \* whether the build defines DEBUG_MODE
    current_log_level,  \* LogLevel current_log_level
    finalized,          \* the handles sqlite3_finalize was called on
    closes,             \* whether sqlite3_close was called on the connection
    late_finalize,      \* a handle was finalized after the connection was closed
    late_log,           \* a line was written to the log stream after it was closed
    failures,           \* the steps of initializeDatabase that have failed
    error_logged,       \* whether the current operation has called log(LogLevel::ERROR, ...)
    bind_error          \* the parameter number in the operation's "Failed to bind parameter" line, 0 if none

vars == << books, stmts, busyLeft, stmt_cache, stmt_cache_mutex, db_mutex, pc, op, stmt,
           bound, retries, rc, results, ret, attempts, slept, before, stack,
           g_archive, db, log_file, running, status, DEBUG_MODE, current_log_level,
           finalized, closes, late_finalize, late_log, failures, error_logged,
           bind_error >>

conn == << books, stmts, busyLeft >>
locals == << stmt, bound, retries, rc, results, ret, attempts, slept, error_logged,
            bind_error >>
proc == << stack, g_archive, db, log_file, running, status, DEBUG_MODE,
           current_log_level, finalized, closes, late_finalize, late_log, failures >>
caller == << pc, op, locals, before >>

\* ------------------------------------------------------------------------
\* The process: main()'s frame and the signal handlers on top of it
\* ------------------------------------------------------------------------

Frame(fn, at) == [fn |-> fn, pc |-> at]

Top == stack[Len(stack)]

\* the frame on top moves to another place
Goto(at) == [stack EXCEPT ![Len(stack)].pc = at]

\* the command loop is running and no handler has interrupted it
Live == status = "running" /\ Len(stack) = 1 /\ Top.pc = "run"

\* ------------------------------------------------------------------------
\* std::shared_mutex
\* ------------------------------------------------------------------------

Unlocked == [w |-> NoThread, r |-> {}]

\* lock() / std::lock_guard
CanLock(m) == m.w = NoThread /\ m.r = {}
Lock(m, t) == [m EXCEPT !.w = t]

\* lock_shared() / std::shared_lock
CanLockShared(m) == m.w = NoThread
LockShared(m, t) == [m EXCEPT !.r = @ \cup {t}]

Unlock(m, t) == [w |-> IF m.w = t THEN NoThread ELSE m.w, r |-> m.r \ {t}]

HoldsExclusive(m, t) == m.w = t
HoldsShared(m, t) == t \in m.r

\* ------------------------------------------------------------------------
\* Prepared statements (the SQLite calls the code makes on a handle)
\* ------------------------------------------------------------------------

ParamCount(sql) ==
    CASE sql = SQL_INSERT -> 3
      [] sql = SQL_DELETE -> 1
      [] sql = SQL_UPDATE -> 3
      [] sql = SQL_SEARCH -> 2
      [] sql = SQL_LIST -> 0

IsSelect(sql) == sql \in { SQL_SEARCH, SQL_LIST }

\* what sqlite3_column_* read when the statement has no current row
NoRow == Row(0, NULL, NULL)

\* a handle: the SQL text it was compiled from and which compilation of that
\* text it is; nullptr
Handle(sql, k) == << sql, k >>
nullptr == << "", 0 >>

HandlesOf(h, sql) == { x \in DOMAIN h : x[1] = sql }

\* sqlite3_prepare_v2: a new handle, nothing bound, not started
NewHandle(h, sql) == Handle(sql, Cardinality(HandlesOf(h, sql)) + 1)

NewStatement(sql) ==
    [sql |-> sql, bind |-> [i \in 1..ParamCount(sql) |-> NULL],
     st |-> "ready", cur |-> 0, row |-> NoRow]

\* sqlite3_reset: back to the start, bindings kept
sqlite3_reset(s) == [s EXCEPT !.st = "ready", !.cur = 0, !.row = NoRow]

\* sqlite3_clear_bindings: every parameter NULL
sqlite3_clear_bindings(s) == [s EXCEPT !.bind = [i \in DOMAIN s.bind |-> NULL]]

\* sqlite3_bind_text is refused (SQLITE_MISUSE) on a statement that was stepped
\* more recently than it was reset
BindOk(s) == s.st = "ready"
sqlite3_bind_text(s, i, v) == [s EXCEPT !.bind[i] = v]

\* the WHERE clause of a SELECT template under the statement's bindings
Where(s, r) ==
    IF s.sql = SQL_SEARCH
    THEN Like(r.title, s.bind[1]) \/ Like(r.author, s.bind[2])
    ELSE TRUE

\* an UPDATE or DELETE whose WHERE clause lets every row through
MatchedAll(tbl, v) == tbl

\* rows an UPDATE or DELETE ... WHERE id = ? touches (id = NULL is never true)
Matched(tbl, v) == IF v = NULL THEN {} ELSE { r \in tbl : r.id = AsInteger(v) }

\* one sqlite3_step of an INSERT: a NULL id takes the next rowid
StepInsert(s, tbl) ==
    LET i == IF s.bind[1] = NULL THEN MaxRowid(tbl) + 1 ELSE AsInteger(s.bind[1])
        ok == NotNullOk(s.bind[2], s.bind[3]) /\ PrimaryKeyFree(tbl, i)
    IN  [rc |-> IF ok THEN "DONE" ELSE "CONSTRAINT",
         books |-> IF ok THEN tbl \cup { Row(i, s.bind[2], s.bind[3]) } ELSE tbl]

\* a DELETE that is an error when no row has the id
StrictDelete(s, tbl) ==
    [rc |-> IF Matched(tbl, s.bind[1]) = {} THEN "NOTFOUND" ELSE "DONE",
     books |-> tbl \ Matched(tbl, s.bind[1])]

\* DELETE FROM books WHERE id = ?: done, whether or not a row had the id
StepDelete(s, tbl) ==
    [rc |-> "DONE", books |-> tbl \ Matched(tbl, s.bind[1])]

\* an UPDATE that is an error when no row has the id
StrictUpdate(s, tbl) ==
    LET m == Matched(tbl, s.bind[3])
    IN  [rc |-> IF m = {} THEN "NOTFOUND" ELSE "DONE",
         books |-> (tbl \ m) \cup { Row(r.id, s.bind[1], s.bind[2]) : r \in m }]

\* UPDATE books SET title = ?, author = ? WHERE id = ?: done, whether or not
\* a row had the id
StepUpdate(s, tbl) ==
    LET m == Matched(tbl, s.bind[3])
        ok == m = {} \/ NotNullOk(s.bind[1], s.bind[2])
    IN  [rc |-> IF ok THEN "DONE" ELSE "CONSTRAINT",
         books |-> IF ok
                   THEN (tbl \ m) \cup { Row(r.id, s.bind[1], s.bind[2]) : r \in m }
                   ELSE tbl]

\* sqlite3_step of a write statement that is not refused as busy: it runs to
\* completion and halts
StepWrite(s, tbl) ==
    LET e == CASE s.sql = SQL_INSERT -> StepInsert(s, tbl)
               [] s.sql = SQL_DELETE -> StepDelete(s, tbl)
               [] s.sql = SQL_UPDATE -> StepUpdate(s, tbl)
    IN  [rc |-> e.rc, books |-> e.books,
         s |-> [s EXCEPT !.st = "halt", !.row = NoRow]]

\* sqlite3_step of a SELECT ... ORDER BY id: the cursor walks the table in
\* rowid order from where it stands; a halted statement restarts (the reset
\* sqlite3_step does itself on a statement prepared with sqlite3_prepare_v2)
StepSelect(s, tbl) ==
    LET from == IF s.st = "run" THEN s.cur ELSE 0
        rest == { r \in tbl : r.id > from /\ Where(s, r) }
    IN  IF rest = {}
        THEN [rc |-> "DONE", books |-> tbl,
              s |-> [s EXCEPT !.st = "halt", !.row = NoRow]]
        ELSE LET r == CHOOSE x \in rest : \A y \in rest : x.id <= y.id
             IN  [rc |-> "ROW", books |-> tbl,
                  s |-> [s EXCEPT !.st = "run", !.cur = r.id, !.row = r]]

sqlite3_step(s, tbl) == IF IsSelect(s.sql) THEN StepSelect(s, tbl) ELSE StepWrite(s, tbl)

\* a step that reports SQLITE_BUSY after it has executed the statement
BusyAfterEffect(s, tbl) == [sqlite3_step(s, tbl) EXCEPT !.rc = "BUSY"]

\* sqlite3_step refused with SQLITE_BUSY: nothing is executed
StepBusy(s, tbl) ==
    [rc |-> "BUSY", books |-> tbl,
     s |-> IF s.st = "run" THEN s
           ELSE [s EXCEPT !.st = "run", !.cur = 0, !.row = NoRow]]

\* a marshalling that reads the author's column into the title and back
SwappedColumns(row) ==
    [id |-> row.id,
     title |-> IF row.author = NULL THEN << >> ELSE row.author,
     author |-> IF row.title = NULL THEN << >> ELSE row.title]

\* sqlite3_column_int / sqlite3_column_text into a Book (a NULL text is "")
Book(row) ==
    [id |-> row.id,
     title |-> IF row.title = NULL THEN << >> ELSE row.title,
     author |-> IF row.author = NULL THEN << >> ELSE row.author]

\* ------------------------------------------------------------------------
\* The record operations: SQL template and parameter vector
\* ------------------------------------------------------------------------

NoOp == [kind |-> "none", id |-> 0, title |-> << >>, author |-> << >>, keyword |-> << >>]

OpSql(o) ==
    CASE o.kind = "addBook" -> SQL_INSERT
      [] o.kind = "deleteBook" -> SQL_DELETE
      [] o.kind = "updateBook" -> SQL_UPDATE
      [] o.kind = "searchBook" -> SQL_SEARCH
      [] o.kind = "displayBooks" -> SQL_LIST

\* std::string searchPattern = "%" + keyword + "%"
searchPattern(keyword) == << "%" >> \o keyword \o << "%" >>

OpParams(o) ==
    CASE o.kind = "addBook" -> << to_string(o.id), o.title, o.author >>
      [] o.kind = "deleteBook" -> << to_string(o.id) >>
      [] o.kind = "updateBook" -> << o.title, o.author, to_string(o.id) >>
      [] o.kind = "searchBook" -> << searchPattern(o.keyword), searchPattern(o.keyword) >>
      [] o.kind = "displayBooks" -> << >>

IsWrite(o) == o.kind \in { "addBook", "deleteBook", "updateBook" }
IsRead(o) == o.kind \in { "searchBook", "displayBooks" }

\* the first line the operation writes to std::cout once executeSQLWithParams
\* has returned r, or executeQuery has returned rows
Message(o, r, rows) ==
    CASE o.kind = "addBook" ->
            IF r = "true" THEN "Book added successfully!"
            ELSE "Error: Failed to add the book. Check logs for details."
      [] o.kind = "deleteBook" ->
            IF r = "true" THEN "Book deleted successfully!"
            ELSE "Error: Failed to delete the book. Check logs for details."
      [] o.kind = "updateBook" ->
            IF r = "true" THEN "Book updated successfully!"
            ELSE "Error: Failed to update the book. Check logs for details."
      [] o.kind = "searchBook" ->
            IF rows = << >> THEN "No books found matching 'keyword'."
            ELSE "Search Results for 'keyword':"
      [] o.kind = "displayBooks" ->
            IF rows = << >> THEN "No books found in the database."
            ELSE "Book Archive - All Books:"

\* ------------------------------------------------------------------------
\* Initial state: the archive is constructed, the table exists and is empty,
\* nothing is prepared, every caller is idle
\* ------------------------------------------------------------------------

Constructed ==
    /\ books = {}
    /\ stmts = << >>
    /\ stmt_cache = [q \in Templates |-> nullptr]
    /\ stmt_cache_mutex = Unlocked
    /\ db_mutex = Unlocked
    /\ pc = [t \in Threads |-> "idle"]
    /\ op = [t \in Threads |-> NoOp]
    /\ stmt = [t \in Threads |-> nullptr]
    /\ bound = [t \in Threads |-> 0]
    /\ retries = [t \in Threads |-> 0]
    /\ rc = [t \in Threads |-> "NONE"]
    /\ results = [t \in Threads |-> << >>]
    /\ ret = [t \in Threads |-> "none"]
    /\ attempts = [t \in Threads |-> 0]
    /\ slept = [t \in Threads |-> << >>]
    /\ before = [t \in Threads |-> {}]
    /\ stack = << Frame("main", "run") >>
    /\ g_archive = TRUE
    /\ db = "open"
    /\ log_file = "open"
    /\ running = TRUE
    /\ status = "running"
    /\ DEBUG_MODE = FALSE
    /\ current_log_level = "ERROR"
    /\ finalized = {}
    /\ closes = FALSE
    /\ late_finalize = FALSE
    /\ late_log = FALSE
    /\ failures = {}
    /\ error_logged = [t \in Threads |-> FALSE]
    /\ bind_error = [t \in Threads |-> 0]

Init == Constructed /\ busyLeft = 0

\* ------------------------------------------------------------------------
\* Entry points
\* ------------------------------------------------------------------------

\* an entry point builds sql and params and calls executeSQLWithParams or
\* executeQuery, which starts with getPreparedStatement(sql)
Call(t, o) ==
    /\ Live
    /\ pc[t] = "idle"
    /\ op' = [op EXCEPT ![t] = o]
    /\ pc' = [pc EXCEPT ![t] = "gps_shared"]
    /\ before' = [before EXCEPT ![t] = books]
    /\ UNCHANGED << proc, conn, stmt_cache, stmt_cache_mutex, db_mutex, locals >>

addBook(t, id, title, author) ==
    Call(t, [NoOp EXCEPT !.kind = "addBook", !.id = id, !.title = title, !.author = author])

deleteBook(t, id) ==
    Call(t, [NoOp EXCEPT !.kind = "deleteBook", !.id = id])

updateBook(t, id, newTitle, newAuthor) ==
    Call(t, [NoOp EXCEPT !.kind = "updateBook", !.id = id, !.title = newTitle, !.author = newAuthor])

searchBook(t, keyword) ==
    Call(t, [NoOp EXCEPT !.kind = "searchBook", !.keyword = keyword])

displayBooks(t) ==
    Call(t, [NoOp EXCEPT !.kind = "displayBooks"])

\* A statement no caller holds is, whatever state it was left in, reset and
\* cleared by the next caller before that caller binds or steps it: its
\* leftover bindings and cursor cannot be observed, and are dropped here.
Quiesce(h, t) ==
    [x \in DOMAIN h |->
        IF x = stmt[t] /\ \A u \in Threads \ {t} : stmt[u] # x
        THEN NewStatement(x[1]) ELSE h[x]]

\* the operation returns to its caller: the locals go out of scope
Return(t) ==
    /\ Live
    /\ pc[t] = "ret"
    /\ stmts' = Quiesce(stmts, t)
    /\ pc' = [pc EXCEPT ![t] = "idle"]
    /\ op' = [op EXCEPT ![t] = NoOp]
    /\ stmt' = [stmt EXCEPT ![t] = nullptr]
    /\ bound' = [bound EXCEPT ![t] = 0]
    /\ retries' = [retries EXCEPT ![t] = 0]
    /\ rc' = [rc EXCEPT ![t] = "NONE"]
    /\ results' = [results EXCEPT ![t] = << >>]
    /\ ret' = [ret EXCEPT ![t] = "none"]
    /\ attempts' = [attempts EXCEPT ![t] = 0]
    /\ slept' = [slept EXCEPT ![t] = << >>]
    /\ error_logged' = [error_logged EXCEPT ![t] = FALSE]
    /\ bind_error' = [bind_error EXCEPT ![t] = 0]
    /\ before' = [before EXCEPT ![t] = {}]
    /\ UNCHANGED << proc, books, busyLeft, stmt_cache, stmt_cache_mutex, db_mutex >>

\* a log line that names the parameter by the loop's index
ZeroBased(i) == i

\* std::to_string(i + 1) in "Failed to bind parameter ": i counts from 0
ParameterNumber(i) == i + 1

\* the failure is logged as an ERROR, and executeSQLWithParams returns false /
\* executeQuery returns the rows it has
Fail(t) ==
    /\ pc' = [pc EXCEPT ![t] = "ret"]
    /\ error_logged' = [error_logged EXCEPT ![t] = TRUE]
    /\ bind_error' = [bind_error EXCEPT ![t] =
                         IF pc[t] = "bind" THEN ParameterNumber(bound[t]) ELSE 0]
    /\ ret' = [ret EXCEPT ![t] = IF IsWrite(op[t]) THEN "false" ELSE "rows"]

\* ------------------------------------------------------------------------
\* getPreparedStatement
\* ------------------------------------------------------------------------

\* std::shared_lock cache_lock(stmt_cache_mutex)
GpsLockShared(t) ==
    /\ Live
    /\ pc[t] = "gps_shared"
    /\ CanLockShared(stmt_cache_mutex)
    /\ stmt_cache_mutex' = LockShared(stmt_cache_mutex, t)
    /\ pc' = [pc EXCEPT ![t] = "gps_find"]
    /\ UNCHANGED << proc, before, conn, stmt_cache, db_mutex, op, locals >>

\* a lookup that keeps its shared lock when it goes on to the exclusive one
HeldIntoUpgrade(m, t) == m

\* the closing brace of the first lookup's block: the shared_lock on
\* stmt_cache_mutex goes out of scope
FindScopeEnd(m, t) == Unlock(m, t)

\* stmt_cache.find(sql) under the shared lock, which the block's end releases
GpsFind(t) ==
    /\ Live
    /\ pc[t] = "gps_find"
    /\ stmt_cache_mutex' = FindScopeEnd(stmt_cache_mutex, t)
    /\ IF stmt_cache[OpSql(op[t])] # nullptr
       THEN /\ stmt' = [stmt EXCEPT ![t] = stmt_cache[OpSql(op[t])]]
            /\ pc' = [pc EXCEPT ![t] = "reset"]
       ELSE /\ pc' = [pc EXCEPT ![t] = "gps_excl"]
            /\ UNCHANGED stmt
    /\ UNCHANGED << proc, before, conn, stmt_cache, db_mutex, op, bound, retries, rc, results,
                    ret, attempts, slept, error_logged, bind_error >>

\* std::lock_guard cache_lock(stmt_cache_mutex)
GpsLock(t) ==
    /\ Live
    /\ pc[t] = "gps_excl"
    /\ CanLock(stmt_cache_mutex)
    /\ stmt_cache_mutex' = Lock(stmt_cache_mutex, t)
    /\ pc' = [pc EXCEPT ![t] = "gps_compile"]
    /\ UNCHANGED << proc, before, conn, stmt_cache, db_mutex, op, locals >>

\* getPreparedStatement without the second lookup
NoRecheck(cache, sql) == nullptr

\* the second stmt_cache.find(sql), under the exclusive lock
Recheck(cache, sql) == cache[sql]

\* a getPreparedStatement that enters the text in the cache whether or not
\* its compilation succeeded
CacheAlways(cache, sql, h, ok) == [cache EXCEPT ![sql] = h]

\* if (rc != SQLITE_OK) return nullptr; comes before stmt_cache[sql] = stmt
CacheAfterPrepare(cache, sql, h, ok) == IF ok THEN [cache EXCEPT ![sql] = h] ELSE cache

\* the check again, then sqlite3_prepare_v2 and stmt_cache[sql] = stmt; a
\* failed prepare is logged, nothing is cached and nullptr is returned
GpsCompile(t) ==
    /\ Live
    /\ pc[t] = "gps_compile"
    /\ stmt_cache_mutex' = Unlock(stmt_cache_mutex, t)
    /\ LET sql == OpSql(op[t]) IN
       IF Recheck(stmt_cache, sql) # nullptr
       THEN /\ stmt' = [stmt EXCEPT ![t] = Recheck(stmt_cache, sql)]
            /\ pc' = [pc EXCEPT ![t] = "reset"]
            /\ UNCHANGED << stmts, stmt_cache, ret, error_logged, bind_error >>
       ELSE \E prepared \in BOOLEAN :
            IF prepared
            THEN /\ stmts' = [x \in DOMAIN stmts \cup { NewHandle(stmts, sql) } |->
                               IF x \in DOMAIN stmts THEN stmts[x] ELSE NewStatement(sql)]
                 /\ stmt_cache' = CacheAfterPrepare(stmt_cache, sql, NewHandle(stmts, sql), TRUE)
                 /\ stmt' = [stmt EXCEPT ![t] = NewHandle(stmts, sql)]
                 /\ pc' = [pc EXCEPT ![t] = "reset"]
                 /\ UNCHANGED << ret, error_logged, bind_error >>
            ELSE /\ Fail(t)
                 /\ stmt_cache' = CacheAfterPrepare(stmt_cache, sql, NewHandle(stmts, sql), FALSE)
                 /\ UNCHANGED << stmts, stmt >>
    /\ UNCHANGED << proc, before, books, busyLeft, db_mutex, op, bound, retries, rc, results,
                    attempts, slept >>

\* ------------------------------------------------------------------------
\* executeSQLWithParams and executeQuery: reset, clear, bind
\* ------------------------------------------------------------------------

\* where the code goes once every parameter is bound
AfterBind(o) == IF IsWrite(o) THEN "w_lock" ELSE "q_lock"

\* sqlite3_reset(stmt)
Reset(t) ==
    /\ Live
    /\ pc[t] = "reset"
    /\ stmts' = [stmts EXCEPT ![stmt[t]] = sqlite3_reset(@)]
    /\ pc' = [pc EXCEPT ![t] = "clear"]
    /\ UNCHANGED << proc, before, books, busyLeft, stmt_cache, stmt_cache_mutex, db_mutex, op,
                    locals >>

\* sqlite3_clear_bindings(stmt); the bind loop starts at i = 0
ClearBindings(t) ==
    /\ Live
    /\ pc[t] = "clear"
    /\ stmts' = [stmts EXCEPT ![stmt[t]] = sqlite3_clear_bindings(@)]
    /\ pc' = [pc EXCEPT ![t] =
                IF Len(OpParams(op[t])) = 0 THEN AfterBind(op[t]) ELSE "bind"]
    /\ UNCHANGED << proc, before, books, busyLeft, stmt_cache, stmt_cache_mutex, db_mutex, op,
                    locals >>

\* one round of the bind loop: sqlite3_bind_text(stmt, i + 1, params[i], ...);
\* a refused bind is logged and ends the operation
Bind(t) ==
    /\ Live
    /\ pc[t] = "bind"
    /\ LET i == bound[t] + 1
           params == OpParams(op[t])
       IN  IF BindOk(stmts[stmt[t]])
           THEN /\ stmts' = [stmts EXCEPT ![stmt[t]] = sqlite3_bind_text(@, i, params[i])]
                /\ bound' = [bound EXCEPT ![t] = i]
                /\ pc' = [pc EXCEPT ![t] =
                            IF i = Len(params) THEN AfterBind(op[t]) ELSE "bind"]
                /\ UNCHANGED << ret, error_logged, bind_error >>
           ELSE /\ Fail(t)
                /\ UNCHANGED << stmts, bound >>
    /\ UNCHANGED << proc, before, books, busyLeft, stmt_cache, stmt_cache_mutex, db_mutex, op,
                    stmt, retries, rc, results, attempts, slept >>

\* ------------------------------------------------------------------------
\* executeSQLWithParams: the retry loop under the exclusive lock
\* ------------------------------------------------------------------------

\* a writer that takes the lock as a reader would, past the shared holders
AdmittedAsReader(m) == CanLockShared(m)

\* when the writer's lock_guard on db_mutex is granted
WriterAdmitted(m) == CanLock(m)

\* std::lock_guard<std::shared_mutex> lock(db_mutex)
WLock(t) ==
    /\ Live
    /\ pc[t] = "w_lock"
    /\ WriterAdmitted(db_mutex)
    /\ db_mutex' = Lock(db_mutex, t)
    /\ pc' = [pc EXCEPT ![t] = "w_step"]
    /\ UNCHANGED << proc, before, conn, stmt_cache, stmt_cache_mutex, op, locals >>

\* another connection takes the database as a caller is about to step: the
\* store refuses that step as busy
Contend ==
    /\ Live
    /\ busyLeft = 0
    /\ \E t \in Threads : pc[t] \in { "w_step", "q_step" }
    /\ busyLeft' = 1
    /\ UNCHANGED << proc, before, books, stmts, stmt_cache, stmt_cache_mutex, db_mutex, pc, op, locals >>

\* sqlite3_step on the connection: refused while the contention lasts
Stepped(s, tbl) == IF busyLeft > 0 THEN StepBusy(s, tbl) ELSE sqlite3_step(s, tbl)

\* a loop that allows one retry more
RetryOnceMore(code, n) == code = "BUSY" /\ n <= SQLITE_MAX_RETRIES

\* the loop condition (rc = sqlite3_step(stmt)) == SQLITE_BUSY && retries < SQLITE_MAX_RETRIES
RetryWrite(code, n) == code = "BUSY" /\ n < SQLITE_MAX_RETRIES

\* a delay that grows by the base instead of doubling
LinearBackoff(n) == BACKOFF_BASE_MS * (n + 1)

\* milliseconds(10 * (1 << retries))
Backoff(n) == BACKOFF_BASE_MS * (2 ^ n)

\* a write that takes any result of the last step for success
AnyResult(code) == TRUE

\* what is not a failure after the loop: !(rc != SQLITE_DONE)
Executed(code) == code = "DONE"

\* one evaluation of the loop condition: sqlite3_step, then either into the
\* loop body or out of the loop and of the lock's scope, to the return: an
\* rc other than SQLITE_DONE is logged as an ERROR and false is returned
WStep(t) ==
    /\ Live
    /\ pc[t] = "w_step"
    /\ LET e == Stepped(stmts[stmt[t]], books)
       IN  /\ MaxRowid(e.books) <= MaxTableId
           /\ books' = e.books
           /\ busyLeft' = IF busyLeft > 0 THEN busyLeft - 1 ELSE 0
           /\ stmts' = [stmts EXCEPT ![stmt[t]] = e.s]
           /\ rc' = [rc EXCEPT ![t] = e.rc]
           /\ attempts' = [attempts EXCEPT ![t] = @ + 1]
           /\ IF RetryWrite(e.rc, retries[t])
              THEN /\ pc' = [pc EXCEPT ![t] = "w_sleep"]
                   /\ UNCHANGED << db_mutex, ret, error_logged, bind_error >>
              ELSE /\ pc' = [pc EXCEPT ![t] = "ret"]
                   /\ db_mutex' = Unlock(db_mutex, t)
                   /\ error_logged' = [error_logged EXCEPT ![t] = ~Executed(e.rc)]
                   /\ UNCHANGED bind_error
                   /\ ret' = [ret EXCEPT ![t] = IF Executed(e.rc) THEN "true" ELSE "false"]
    /\ UNCHANGED << proc, before, stmt_cache, stmt_cache_mutex, op, stmt, bound, retries, results,
                    slept >>

\* the loop body: sleep_for(10 * (1 << retries)); retries++
WSleep(t) ==
    /\ Live
    /\ pc[t] = "w_sleep"
    /\ slept' = [slept EXCEPT ![t] = Append(@, Backoff(retries[t]))]
    /\ retries' = [retries EXCEPT ![t] = @ + 1]
    /\ pc' = [pc EXCEPT ![t] = "w_step"]
    /\ UNCHANGED << proc, before, conn, stmt_cache, stmt_cache_mutex, db_mutex, op, stmt, bound,
                    rc, results, ret, attempts, error_logged, bind_error >>

\* ------------------------------------------------------------------------
\* executeQuery: one shared lock per sqlite3_step
\* ------------------------------------------------------------------------

\* a reader that does not wait for the writer
AdmittedAtOnce(m) == TRUE

\* a shared lock is granted while no caller holds the lock exclusively
ReaderAdmitted(m) == CanLockShared(m)

\* std::shared_lock<std::shared_mutex> lock(db_mutex)
QLock(t) ==
    /\ Live
    /\ pc[t] = "q_lock"
    /\ ReaderAdmitted(db_mutex)
    /\ db_mutex' = LockShared(db_mutex, t)
    /\ pc' = [pc EXCEPT ![t] = "q_step"]
    /\ UNCHANGED << proc, before, conn, stmt_cache, stmt_cache_mutex, op, locals >>

\* else if (rc == SQLITE_BUSY && retries < SQLITE_MAX_RETRIES)
\* a read that never retries a busy step
GiveUpAtOnce(code, n) == FALSE

\* rc == SQLITE_BUSY && retries < SQLITE_MAX_RETRIES
RetryRead(code, n) == code = "BUSY" /\ n < SQLITE_MAX_RETRIES

\* a reader that keeps its shared lock when the step is over
HeldAcrossScan(m, t) == m

\* the closing brace of the block around sqlite3_step: the shared_lock goes
\* out of scope
StepScopeEnd(m, t) == Unlock(m, t)

\* rc = sqlite3_step(stmt) and the end of the lock's block, then the branch
\* on rc: a row is still to be read, busy sleeps, done leaves the loop, and
\* anything else is logged as an ERROR and leaves the loop
QStep(t) ==
    /\ Live
    /\ pc[t] = "q_step"
    /\ LET e == Stepped(stmts[stmt[t]], books)
       IN  /\ stmts' = [stmts EXCEPT ![stmt[t]] = e.s]
           /\ busyLeft' = IF busyLeft > 0 THEN busyLeft - 1 ELSE 0
           /\ rc' = [rc EXCEPT ![t] = e.rc]
           /\ attempts' = [attempts EXCEPT ![t] = @ + 1]
           /\ db_mutex' = StepScopeEnd(db_mutex, t)
           /\ IF e.rc = "ROW"
              THEN /\ pc' = [pc EXCEPT ![t] = "q_row"]
                   /\ UNCHANGED << ret, error_logged, bind_error >>
              ELSE IF RetryRead(e.rc, retries[t])
              THEN /\ pc' = [pc EXCEPT ![t] = "q_sleep"]
                   /\ UNCHANGED << ret, error_logged, bind_error >>
              ELSE /\ pc' = [pc EXCEPT ![t] = "ret"]
                   /\ error_logged' = [error_logged EXCEPT ![t] = e.rc # "DONE"]
                   /\ UNCHANGED bind_error
                   /\ ret' = [ret EXCEPT ![t] = "rows"]
    /\ UNCHANGED << proc, before, books, stmt_cache, stmt_cache_mutex, op, stmt, bound, retries,
                    results, slept >>

\* rc == SQLITE_ROW: the three sqlite3_column_* reads of the statement's
\* current row, results.push_back(book), and round the loop again
QRow(t) ==
    /\ Live
    /\ pc[t] = "q_row"
    /\ Len(results[t]) < MaxRows
    /\ results' = [results EXCEPT ![t] = Append(@, Book(stmts[stmt[t]].row))]
    /\ pc' = [pc EXCEPT ![t] = "q_lock"]
    /\ UNCHANGED << proc, before, conn, stmt_cache, stmt_cache_mutex, db_mutex, op, stmt, bound,
                    retries, rc, ret, attempts, slept, error_logged, bind_error >>

\* sleep_for(10 * (1 << retries)); retries++; continue
QSleep(t) ==
    /\ Live
    /\ pc[t] = "q_sleep"
    /\ slept' = [slept EXCEPT ![t] = Append(@, Backoff(retries[t]))]
    /\ retries' = [retries EXCEPT ![t] = @ + 1]
    /\ pc' = [pc EXCEPT ![t] = "q_lock"]
    /\ UNCHANGED << proc, before, conn, stmt_cache, stmt_cache_mutex, db_mutex, op, stmt, bound,
                    rc, results, ret, attempts, error_logged, bind_error >>

\* ------------------------------------------------------------------------
\* log(level, message)
\* ------------------------------------------------------------------------

\* enum class LogLevel { INFO, DEBUG, ERROR }
LevelRank(level) == CASE level = "INFO" -> 0 [] level = "DEBUG" -> 1 [] level = "ERROR" -> 2

\* the level filter: level < current_log_level returns, and so does every
\* level but ERROR in a build without DEBUG_MODE
Passes(level) ==
    /\ LevelRank(level) >= LevelRank(current_log_level)
    /\ (DEBUG_MODE \/ level = "ERROR")

\* whether log() gets to write its line: if (!log_file.is_open()) return;
LogWrites(level) == Passes(level) /\ log_file = "open"

\* the stream log() writes to is not open any more
LateLog(level) == LogWrites(level) /\ log_file # "open"

\* ------------------------------------------------------------------------
\* main(), the constructor and initializeDatabase
\* ------------------------------------------------------------------------

\* log_file.open("book_archive.log", std::ios::app), which may fail
CtorOpenLog ==
    /\ status = "running" /\ Top.pc = "new"
    /\ \E opened \in BOOLEAN : log_file' = IF opened THEN "open" ELSE "unopened"
    /\ stack' = Goto("init_open")
    /\ UNCHANGED << books, stmts, busyLeft, stmt_cache, stmt_cache_mutex, db_mutex,
                    caller, g_archive, db, running, status, DEBUG_MODE,
                    current_log_level, failures, finalized, closes, late_finalize, late_log >>

\* an initializeDatabase in which every failed step returns false
AllFatal(step) == TRUE

\* the steps of initializeDatabase whose failure returns false; the failure of
\* any other step is logged and the function goes on
Fatal(step) == step \in { "open", "table" }

\* where initializeDatabase goes after a failed step
AfterFailure(step, next) == IF Fatal(step) THEN "throw" ELSE next

\* std::lock_guard lock(db_mutex); sqlite3_open: on failure the error is
\* logged, sqlite3_close(db) is called and initializeDatabase returns false
InitOpen ==
    /\ status = "running" /\ Top.pc = "init_open"
    /\ \E opened \in BOOLEAN :
       IF opened
       THEN /\ db' = "open"
            /\ db_mutex' = Lock(db_mutex, "t1")
            /\ stack' = Goto("init_pragmas")
            /\ UNCHANGED << closes, late_log, failures >>
       ELSE /\ db' = "closed"
            /\ closes' = TRUE
            /\ late_log' = (late_log \/ LateLog("ERROR"))
            /\ failures' = failures \cup { "open" }
            /\ stack' = Goto(AfterFailure("open", "init_pragmas"))
            /\ db_mutex' = IF Fatal("open") THEN db_mutex ELSE Lock(db_mutex, "t1")
    /\ UNCHANGED << books, stmts, busyLeft, stmt_cache, stmt_cache_mutex, caller,
                    g_archive, log_file, running, status, DEBUG_MODE,
                    current_log_level, finalized, late_finalize >>

\* the five PRAGMAs: a failure is logged and the loop goes on
InitPragmas ==
    /\ status = "running" /\ Top.pc = "init_pragmas"
    /\ \E failed \in BOOLEAN :
       IF failed
       THEN /\ late_log' = (late_log \/ LateLog("ERROR"))
            /\ failures' = failures \cup { "pragma" }
            /\ stack' = Goto(AfterFailure("pragma", "init_table"))
            /\ db_mutex' = IF Fatal("pragma") THEN Unlock(db_mutex, "t1") ELSE db_mutex
       ELSE /\ stack' = Goto("init_table")
            /\ UNCHANGED << late_log, failures, db_mutex >>
    /\ UNCHANGED << books, stmts, busyLeft, stmt_cache, stmt_cache_mutex,
                    caller, g_archive, db, log_file, running, status, DEBUG_MODE,
                    current_log_level, finalized, closes, late_finalize >>

\* CREATE TABLE IF NOT EXISTS books: a failure is logged and returns false
InitTable ==
    /\ status = "running" /\ Top.pc = "init_table"
    /\ \E created \in BOOLEAN :
       IF created
       THEN /\ stack' = Goto("init_index")
            /\ UNCHANGED << db_mutex, late_log, failures >>
       ELSE /\ late_log' = (late_log \/ LateLog("ERROR"))
            /\ failures' = failures \cup { "table" }
            /\ stack' = Goto(AfterFailure("table", "init_index"))
            /\ db_mutex' = IF Fatal("table") THEN Unlock(db_mutex, "t1") ELSE db_mutex
    /\ UNCHANGED << books, stmts, busyLeft, stmt_cache, stmt_cache_mutex, caller,
                    g_archive, db, log_file, running, status, DEBUG_MODE,
                    current_log_level, finalized, closes, late_finalize >>

\* CREATE INDEX IF NOT EXISTS: a failure is logged; return true, and the
\* constructor logs its two INFO lines
InitIndex ==
    /\ status = "running" /\ Top.pc = "init_index"
    /\ \E created \in BOOLEAN :
       IF created
       THEN /\ late_log' = (late_log \/ LateLog("INFO"))
            /\ stack' = Goto("assign")
            /\ UNCHANGED failures
       ELSE /\ late_log' = (late_log \/ LateLog("ERROR")
                                     \/ (~Fatal("index") /\ LateLog("INFO")))
            /\ failures' = failures \cup { "index" }
            /\ stack' = Goto(AfterFailure("index", "assign"))
    /\ db_mutex' = Unlock(db_mutex, "t1")
    /\ UNCHANGED << books, stmts, busyLeft, stmt_cache, stmt_cache_mutex, caller,
                    g_archive, db, log_file, running, status, DEBUG_MODE,
                    current_log_level, finalized, closes, late_finalize >>

\* g_archive = new BookArchive(db_file, log_level); g_archive->run(): the
\* constructor has returned and what initializeDatabase met is in the log only
Assign ==
    /\ status = "running" /\ Top.pc = "assign"
    /\ g_archive' = TRUE
    /\ failures' = {}
    /\ stack' = Goto("run")
    /\ UNCHANGED << books, stmts, busyLeft, stmt_cache, stmt_cache_mutex, db_mutex,
                    caller, db, log_file, running, status, DEBUG_MODE,
                    current_log_level, finalized, closes, late_finalize, late_log >>

\* throw std::runtime_error from the constructor: the members are destroyed
\* (the stream closes its file), ~BookArchive() does not run, and main's catch
\* finds g_archive null (it was never assigned) and returns 1
Throw ==
    /\ status = "running" /\ Top.pc = "throw"
    /\ log_file' = "destroyed"
    /\ status' = "returned 1"
    /\ failures' = {}
    /\ stack' = Goto("end")
    /\ UNCHANGED << books, stmts, busyLeft, stmt_cache, stmt_cache_mutex, db_mutex,
                    caller, g_archive, db, running, DEBUG_MODE, current_log_level,
                    finalized, closes, late_finalize, late_log >>

\* the exit command: running = false, run() returns, delete g_archive
ExitCommand ==
    /\ Live
    /\ pc["t1"] = "idle"
    /\ running' = FALSE
    /\ stack' = Goto("dtor_log")
    /\ UNCHANGED << books, stmts, busyLeft, stmt_cache, stmt_cache_mutex, db_mutex,
                    caller, g_archive, db, log_file, status, DEBUG_MODE,
                    current_log_level, failures, finalized, closes, late_finalize, late_log >>

\* ------------------------------------------------------------------------
\* ~BookArchive(), run in main()'s frame by delete and in a handler's frame
\* by signalHandler
\* ------------------------------------------------------------------------

\* a destructor that closes the connection before it cleans the cache up
CloseFirst(at) ==
    CASE at = "dtor_log" -> "dtor_close"
      [] at = "dtor_close" -> "dtor_lock"
      [] at = "dtor_finalize" -> "dtor_logclose"
      [] at = "dtor_logclose" -> "dtor_end"

\* the order of the destructor's statements: where each one leads
DtorAfter(at) ==
    CASE at = "dtor_log" -> "dtor_lock"
      [] at = "dtor_finalize" -> "dtor_close"
      [] at = "dtor_close" -> "dtor_logclose"
      [] at = "dtor_logclose" -> "dtor_end"

\* log(LogLevel::INFO, "Shutting down Book Archive")
DtorLog ==
    /\ status = "running" /\ Top.pc = "dtor_log"
    /\ late_log' = (late_log \/ LateLog("INFO"))
    /\ stack' = Goto(DtorAfter("dtor_log"))
    /\ UNCHANGED << books, stmts, busyLeft, stmt_cache, stmt_cache_mutex, db_mutex,
                    caller, g_archive, db, log_file, running, status, DEBUG_MODE,
                    current_log_level, failures, finalized, closes, late_finalize >>

\* cleanupStatements: std::lock_guard lock(stmt_cache_mutex)
DtorLock ==
    /\ status = "running" /\ Top.pc = "dtor_lock"
    /\ CanLock(stmt_cache_mutex)
    /\ stmt_cache_mutex' = Lock(stmt_cache_mutex, "t1")
    /\ stack' = Goto("dtor_finalize")
    /\ UNCHANGED << books, stmts, busyLeft, stmt_cache, db_mutex, caller, g_archive,
                    db, log_file, running, status, DEBUG_MODE, current_log_level, failures,
                    finalized, closes, late_finalize, late_log >>

\* a cleanupStatements that finds nothing to finalize
NoneCached == {}

\* the handles the cache holds
Cached == { stmt_cache[q] : q \in Templates } \ { nullptr }

\* cleanupStatements: sqlite3_finalize on every cached handle, stmt_cache.clear(),
\* and the end of the lock's scope
DtorFinalize ==
    /\ status = "running" /\ Top.pc = "dtor_finalize"
    /\ finalized' = finalized \cup Cached
    /\ late_finalize' = (late_finalize \/ (Cached # {} /\ db # "open"))
    /\ stmt_cache' = [q \in Templates |-> nullptr]
    /\ stmt_cache_mutex' = Unlock(stmt_cache_mutex, "t1")
    /\ stack' = Goto(DtorAfter("dtor_finalize"))
    /\ UNCHANGED << books, stmts, busyLeft, db_mutex, caller, g_archive, db, log_file,
                    running, status, DEBUG_MODE, current_log_level, failures, closes, late_log >>

\* if (db) sqlite3_close(db);
DtorClose ==
    /\ status = "running" /\ Top.pc = "dtor_close"
    /\ IF db # "null"
       THEN /\ db' = "closed"
            /\ closes' = TRUE
            /\ stack' = Goto("dtor_null")
       ELSE /\ stack' = Goto(DtorAfter("dtor_close"))
            /\ UNCHANGED << db, closes >>
    /\ UNCHANGED << books, stmts, busyLeft, stmt_cache, stmt_cache_mutex, db_mutex,
                    caller, g_archive, log_file, running, status, DEBUG_MODE,
                    current_log_level, failures, finalized, late_finalize, late_log >>

\* db = nullptr;
DtorNull ==
    /\ status = "running" /\ Top.pc = "dtor_null"
    /\ db' = "null"
    /\ stack' = Goto(DtorAfter("dtor_close"))
    /\ UNCHANGED << books, stmts, busyLeft, stmt_cache, stmt_cache_mutex, db_mutex,
                    caller, g_archive, log_file, running, status, DEBUG_MODE,
                    current_log_level, failures, finalized, closes, late_finalize, late_log >>

\* if (log_file.is_open()) log_file.close();
DtorCloseLog ==
    /\ status = "running" /\ Top.pc = "dtor_logclose"
    /\ log_file' = IF log_file = "open" THEN "closed" ELSE log_file
    /\ stack' = Goto(DtorAfter("dtor_logclose"))
    /\ UNCHANGED << books, stmts, busyLeft, stmt_cache, stmt_cache_mutex, db_mutex,
                    caller, g_archive, db, running, status, DEBUG_MODE,
                    current_log_level, failures, finalized, closes, late_finalize, late_log >>

\* the destructor returns: in main, delete destroys the members and frees the
\* object; in signalHandler, g_archive = nullptr is next
DtorEnd ==
    /\ status = "running" /\ Top.pc = "dtor_end"
    /\ stack' = Goto(IF Top.fn = "main" THEN "deleted" ELSE "h_null")
    /\ UNCHANGED << books, stmts, busyLeft, stmt_cache, stmt_cache_mutex, db_mutex,
                    caller, g_archive, db, log_file, running, status, DEBUG_MODE,
                    current_log_level, failures, finalized, closes, late_finalize, late_log >>

\* main: g_archive = nullptr; return 0;
MainReturn ==
    /\ status = "running" /\ Len(stack) = 1 /\ Top.pc = "deleted"
    /\ g_archive' = FALSE
    /\ status' = "returned 0"
    /\ stack' = Goto("end")
    /\ UNCHANGED << books, stmts, busyLeft, stmt_cache, stmt_cache_mutex, db_mutex,
                    caller, db, log_file, running, DEBUG_MODE, current_log_level, failures,
                    finalized, closes, late_finalize, late_log >>

\* ------------------------------------------------------------------------
\* signalHandler
\* ------------------------------------------------------------------------

Signals == { "SIGINT", "SIGTERM" }

\* the object g_archive points to was already destroyed and freed by delete
Dangling == g_archive /\ stack[1].pc = "deleted"

\* SIGINT or SIGTERM is delivered: the handler runs on top of what it
\* interrupts; a signal is blocked while its own handler runs
Signal(sig) ==
    /\ status = "running"
    /\ stack[1].pc # "end"
    /\ \A i \in 1..Len(stack) : stack[i].fn # sig
    /\ stack' = Append(stack, Frame(sig, "h_entry"))
    /\ UNCHANGED << books, stmts, busyLeft, stmt_cache, stmt_cache_mutex, db_mutex,
                    caller, g_archive, db, log_file, running, status, DEBUG_MODE,
                    current_log_level, failures, finalized, closes, late_finalize, late_log >>

\* if (g_archive) g_archive->~BookArchive(); on a destroyed object the call
\* is undefined: it runs on what the fields last held, or the process dies
HandlerEntry ==
    /\ status = "running" /\ Top.pc = "h_entry"
    /\ \/ /\ g_archive
          /\ stack' = Goto("dtor_log")
          /\ UNCHANGED status
       \/ /\ ~g_archive
          /\ stack' = Goto("h_exit")
          /\ UNCHANGED status
       \/ /\ Dangling
          /\ status' = "crashed"
          /\ UNCHANGED stack
    /\ UNCHANGED << books, stmts, busyLeft, stmt_cache, stmt_cache_mutex, db_mutex,
                    caller, g_archive, db, log_file, running, DEBUG_MODE,
                    current_log_level, failures, finalized, closes, late_finalize, late_log >>

\* g_archive = nullptr;
HandlerNull ==
    /\ status = "running" /\ Top.pc = "h_null"
    /\ g_archive' = FALSE
    /\ stack' = Goto("h_exit")
    /\ UNCHANGED << books, stmts, busyLeft, stmt_cache, stmt_cache_mutex, db_mutex,
                    caller, db, log_file, running, status, DEBUG_MODE,
                    current_log_level, failures, finalized, closes, late_finalize, late_log >>

\* exit(0);
HandlerExit ==
    /\ status = "running" /\ Top.pc = "h_exit"
    /\ status' = "exit 0"
    /\ UNCHANGED << books, stmts, busyLeft, stmt_cache, stmt_cache_mutex, db_mutex,
                    caller, stack, g_archive, db, log_file, running, DEBUG_MODE,
                    current_log_level, failures, finalized, closes, late_finalize, late_log >>

\* the steps inside an operation, whichever entry point started it
Work(t) ==
    \/ GpsLockShared(t)
    \/ GpsFind(t)
    \/ GpsLock(t)
    \/ GpsCompile(t)
    \/ Reset(t)
    \/ ClearBindings(t)
    \/ Bind(t)
    \/ WLock(t)
    \/ WStep(t)
    \/ WSleep(t)
    \/ QLock(t)
    \/ QStep(t)
    \/ QRow(t)
    \/ QSleep(t)
    \/ Return(t)

Step(t) ==
    \/ \E id \in Ids, title \in Texts, author \in Texts : addBook(t, id, title, author)
    \/ \E id \in Ids : deleteBook(t, id)
    \/ \E id \in Ids, title \in Texts, author \in Texts : updateBook(t, id, title, author)
    \/ \E keyword \in Keywords : searchBook(t, keyword)
    \/ displayBooks(t)
    \/ Work(t)

\* The program as it is run: one caller, the command loop, and a store that
\* other connections may contend for at any time.
Next ==
    \/ Step("t1")
    \/ Contend

Spec == Init /\ [][Next]_vars

\* Concurrent callers of the archive's operations, on a store that is
\* contended for when they start and refuses the first steps, MaxBusy at most,
\* as busy.  The callers add the lowest and the highest id and list the books.
InitConc == Constructed /\ busyLeft \in 0..MaxBusy

StepConc(t) ==
    \/ \E id \in { 1, MaxId } : addBook(t, id, << "A" >>, << "b" >>)
    \/ displayBooks(t)
    \/ Work(t)

NextConc == \E t \in Threads : StepConc(t)

SpecConc == InitConc /\ [][NextConc]_vars

\* Two threads that write and search: both kinds of operation bind
\* parameters, to statements the other thread may be using.
InitBind == Constructed /\ busyLeft \in 0..1

StepBind(t) ==
    \/ addBook(t, 1, << "A" >>, << "b" >>)
    \/ searchBook(t, << "a" >>)
    \/ Work(t)

NextBind == \E t \in Threads : StepBind(t)

SpecBind == InitBind /\ [][NextBind]_vars

\* The process from main()'s try block on: construction, the command loop of
\* the one caller, the exit command, and SIGINT/SIGTERM at any point.  The
\* build and the log level are any.
InitLife ==
    /\ books = {}
    /\ stmts = << >>
    /\ busyLeft = 0
    /\ stmt_cache = [q \in Templates |-> nullptr]
    /\ stmt_cache_mutex = Unlocked
    /\ db_mutex = Unlocked
    /\ pc = [t \in Threads |-> "idle"]
    /\ op = [t \in Threads |-> NoOp]
    /\ stmt = [t \in Threads |-> nullptr]
    /\ bound = [t \in Threads |-> 0]
    /\ retries = [t \in Threads |-> 0]
    /\ rc = [t \in Threads |-> "NONE"]
    /\ results = [t \in Threads |-> << >>]
    /\ ret = [t \in Threads |-> "none"]
    /\ attempts = [t \in Threads |-> 0]
    /\ slept = [t \in Threads |-> << >>]
    /\ before = [t \in Threads |-> {}]
    /\ stack = << Frame("main", "new") >>
    /\ g_archive = FALSE
    /\ db = "null"
    /\ log_file = "unopened"
    /\ running = TRUE
    /\ status = "running"
    /\ DEBUG_MODE \in BOOLEAN
    /\ current_log_level \in { "INFO", "DEBUG", "ERROR" }
    /\ finalized = {}
    /\ closes = FALSE
    /\ late_finalize = FALSE
    /\ late_log = FALSE
    /\ failures = {}
    /\ error_logged = [t \in Threads |-> FALSE]
    /\ bind_error = [t \in Threads |-> 0]

\* the commands of the one caller: add a book, list the books
Command(t) ==
    \/ addBook(t, 1, << "A" >>, << "b" >>)
    \/ displayBooks(t)
    \/ Work(t)

NextLife ==
    \/ CtorOpenLog
    \/ InitOpen
    \/ InitPragmas
    \/ InitTable
    \/ InitIndex
    \/ Assign
    \/ Throw
    \/ Command("t1")
    \/ Contend
    \/ ExitCommand
    \/ DtorLog
    \/ DtorLock
    \/ DtorFinalize
    \/ DtorClose
    \/ DtorNull
    \/ DtorCloseLog
    \/ DtorEnd
    \/ MainReturn
    \/ \E sig \in Signals : Signal(sig)
    \/ HandlerEntry
    \/ HandlerNull
    \/ HandlerExit

SpecLife == InitLife /\ [][NextLife]_vars

\* ------------------------------------------------------------------------
\* Properties
\* ------------------------------------------------------------------------

\* the caller's operation has returned to the entry point that started it
Returned(t, kind) == pc[t] = "ret" /\ op[t].kind = kind

\* C1 (one caller at a time): the table never holds two records with one id,
\* and an addBook whose id was already in the table when it was called returns
\* false and leaves the record with that id as it was.
C1_Uniqueness ==
    /\ \A r1, r2 \in books : r1.id = r2.id => r1 = r2
    /\ \A t \in Threads :
          (Returned(t, "addBook") /\ op[t].id \in RowIds(before[t]))
          => /\ ret[t] = "false"
             /\ \A r \in before[t] : r.id = op[t].id => r \in books

\* an addBook with another title for an id in the table was stepped and refused
C1_Witness ==
    \E t \in Threads :
        /\ Returned(t, "addBook") /\ rc[t] = "CONSTRAINT"
        /\ \E r \in books : r.id = op[t].id /\ r.title # op[t].title

\* C2: whenever a caller is about to step its statement, the statement's
\* bindings are the parameter vector of that caller's own operation.
C2_OwnParameters ==
    \A t \in Threads :
        pc[t] \in { "w_step", "q_step" } => stmts[stmt[t]].bind = OpParams(op[t])

\* C3: a SQL text is compiled at most once however many callers ask for it at
\* the same time, and every caller that holds a handle holds the cached one.
C3_CompileOnce ==
    /\ \A sql \in Templates : Cardinality(HandlesOf(stmts, sql)) <= 1
    /\ \A t \in Threads : stmt[t] # nullptr => stmt[t] = stmt_cache[OpSql(op[t])]

\* a caller that missed in the first lookup holds the exclusive lock for the
\* second one, and meanwhile another caller compiled the text and got the handle
C3_Witness ==
    \E t, u \in Threads :
        /\ t # u
        /\ pc[t] = "gps_compile"
        /\ op[u].kind = op[t].kind
        /\ stmt[u] # nullptr
        /\ stmt[u] = stmt_cache[OpSql(op[t])]

\* C4 as stated: a write never makes a sixth step attempt.
C4_FiveAttempts == \A t \in Threads : IsWrite(op[t]) => attempts[t] <= 5

\* C4 amended: a write that is refused as busy on every step makes exactly
\* SQLITE_MAX_RETRIES + 1 step attempts (the first and five retries) and then
\* returns false; it never makes a seventh.
C4_SixAttempts ==
    \A t \in Threads :
        IsWrite(op[t]) =>
            /\ attempts[t] <= SQLITE_MAX_RETRIES + 1
            /\ (pc[t] = "ret" /\ rc[t] = "BUSY")
               => /\ attempts[t] = SQLITE_MAX_RETRIES + 1
                  /\ retries[t] = SQLITE_MAX_RETRIES
                  /\ ret[t] = "false"

\* a write gave up on a store that was busy at every step
C4_Witness ==
    \E t \in Threads : pc[t] = "ret" /\ IsWrite(op[t]) /\ rc[t] = "BUSY" /\ ret[t] = "false"

RECURSIVE Sum(_)
Sum(q) == IF q = << >> THEN 0 ELSE Head(q) + Sum(Tail(q))

\* the write's own arguments let it succeed on the table it was called on
Succeeds(t) == op[t].kind = "addBook" => op[t].id \notin RowIds(before[t])

\* C5 (one caller at a time): the n-th sleep of a write lasts 10 * 2^(n-1),
\* there are at most five, a write that is refused to the end has slept 310
\* in all, and a write refused three times and then admitted returns true
\* after sleeping 10, 20 and 40.
C5_Backoff ==
    \A t \in Threads :
        IsWrite(op[t]) =>
            /\ Len(slept[t]) <= 5
            /\ \A n \in 1..Len(slept[t]) : slept[t][n] = 10 * (2 ^ (n - 1))
            /\ (pc[t] = "ret" /\ rc[t] = "BUSY") => Sum(slept[t]) = 310
            /\ (pc[t] = "ret" /\ attempts[t] = 4 /\ rc[t] # "BUSY" /\ Succeeds(t))
               => (ret[t] = "true" /\ slept[t] = << 10, 20, 40 >>)

\* a write was refused three times, slept 10 + 20 + 40, and was then admitted
C5_Witness ==
    \E t \in Threads :
        /\ pc[t] = "ret" /\ IsWrite(op[t]) /\ ret[t] = "true"
        /\ Sum(slept[t]) = 70

\* C6: the rows a read has collected are in strictly ascending id order.
C6_Ascending ==
    \A t \in Threads :
        \A i \in 1..(Len(results[t]) - 1) : results[t][i].id < results[t][i + 1].id

\* the caller is inside the retry loop of a write: at a step or in a sleep
InRetryLoop(t) == pc[t] \in { "w_step", "w_sleep" }

\* the action is a sqlite3_step by the caller
Steps(u) == attempts'[u] > attempts[u]

\* C7: while a write is in its retry loop, sleeps included, it holds the
\* connection lock exclusively, no other caller is at a step, and no other
\* caller's statement is stepped.
C7_WriterExclusion ==
    /\ [](\A t \in Threads :
            InRetryLoop(t) =>
               /\ HoldsExclusive(db_mutex, t)
               /\ db_mutex.r = {}
               /\ \A u \in Threads \ {t} : ~InRetryLoop(u) /\ pc[u] # "q_step")
    /\ [][\A t \in Threads :
            (InRetryLoop(t) /\ attempts[t] >= 1) => \A u \in Threads \ {t} : ~Steps(u)]_vars

\* a write sleeps between two refused steps while another caller waits for
\* the connection lock
C7_Witness ==
    \E t, u \in Threads :
        /\ t # u
        /\ pc[t] = "w_sleep" /\ attempts[t] >= 1
        /\ pc[u] \in { "w_lock", "q_lock" }

\* the scan has made a step and will make another: it is reading the row it
\* was given, sleeping after a refusal, or asking for the lock again
BetweenSteps(t) ==
    /\ IsRead(op[t]) /\ attempts[t] >= 1
    /\ pc[t] \in { "q_row", "q_sleep", "q_lock" }

\* C8 as stated: between two consecutive steps of a scan no write of another
\* caller is stepped.
C8_NoWriteInsideScan ==
    [][\A t \in Threads :
          BetweenSteps(t) => \A u \in Threads \ {t} : IsWrite(op[u]) => ~Steps(u)]_vars

\* C8 amended: a write of another caller is never stepped while a step of a
\* scan is in progress: a scan at a step holds the connection lock shared, no
\* write is then in its retry loop, and no write step is taken.
C8_NoWriteDuringStep ==
    /\ [](\A t \in Threads :
            pc[t] = "q_step" =>
               /\ HoldsShared(db_mutex, t)
               /\ db_mutex.w = NoThread
               /\ \A u \in Threads \ {t} : ~InRetryLoop(u))
    /\ [][\A t \in Threads :
            pc[t] = "q_step" => \A u \in Threads \ {t} : IsWrite(op[u]) => ~Steps(u)]_vars

\* a scan that has read a row holds the lock for its next step while a write
\* waits for the lock
C8_Witness ==
    \E t, u \in Threads :
        /\ t # u
        /\ pc[t] = "q_step" /\ Len(results[t]) >= 1
        /\ pc[u] = "w_lock"

\* the process has ended by a return from main or by exit(0)
Exited == status \in { "returned 0", "returned 1", "exit 0" }

\* C9: when the process has exited, the connection is not left open and
\* every statement that was prepared has been finalized.
C9_TeardownOnExit == Exited => (db # "open" /\ DOMAIN stmts \subseteq finalized)

\* C10: once sqlite3_close was called every prepared statement has been
\* finalized, the log file is not closed while the connection is open, no
\* statement is finalized on a closed connection, and nothing is written to
\* the log after it was closed.
C10_TeardownOrder ==
    /\ closes => DOMAIN stmts \subseteq finalized
    /\ log_file = "closed" => db # "open"
    /\ ~late_finalize
    /\ ~late_log

\* the destructor has run to its end on an archive that had cached statements
C10_Witness ==
    /\ finalized # {}
    /\ closes
    /\ db = "null"
    /\ log_file = "closed"

\* the operation holds a statement handle it may still bind or step, or
\* holds the connection lock
InUse(t) ==
    \/ pc[t] \in { "reset", "clear", "bind", "w_lock", "w_step", "w_sleep",
                   "q_lock", "q_step", "q_row", "q_sleep" }
    \/ HoldsExclusive(db_mutex, t)
    \/ HoldsShared(db_mutex, t)

\* C11: while an operation is between getting its statement and its last
\* step, or holds the connection lock, its statement is not finalized and the
\* connection is open.
C11_NoTeardownInUse ==
    \A t \in Threads : InUse(t) => (stmt[t] \notin finalized /\ db = "open")

\* the frame is executing ~BookArchive
InDestructor(f) ==
    f.pc \in { "dtor_log", "dtor_lock", "dtor_finalize", "dtor_close", "dtor_null",
               "dtor_logclose", "dtor_end" }

\* C12: a signal handler that comes to cleanupStatements' lock finds it free
\* (the code it interrupted, which cannot go on before the handler is done,
\* does not hold it), and the destructor is never entered while a run of it
\* is suspended underneath.
C12_ShutdownCompletes ==
    /\ (status = "running" /\ Len(stack) > 1 /\ Top.pc = "dtor_lock")
       => CanLock(stmt_cache_mutex)
    /\ \A i, j \in 1..Len(stack) :
          (i < j /\ InDestructor(stack[i])) => ~InDestructor(stack[j])

\* C13: initializeDatabase returns true exactly when neither sqlite3_open
\* nor CREATE TABLE failed, whatever the pragmas and CREATE INDEX did, and
\* then the connection is open; when it returns false the constructor throws
\* and main goes to its end returning 1, never into run().
C13_StartupSplit ==
    /\ [](stack[1].pc = "assign" => (failures \cap { "open", "table" } = {} /\ db = "open"))
    /\ [](stack[1].pc = "throw" => (failures \cap { "open", "table" } # {} /\ ~g_archive))
    /\ [][stack[1].pc = "throw" =>
            \/ stack'[1].pc = "throw"
            \/ (stack'[1].pc = "end" /\ status' = "returned 1" /\ ~g_archive')]_vars

\* a pragma and the index creation have failed and the archive is constructed
C13_Witness ==
    /\ stack[1].pc = "assign"
    /\ failures = { "pragma", "index" }
    /\ db = "open"

\* the returned operation met a failure: no statement could be compiled, a
\* parameter could not be bound (nothing was stepped), or the last step ended
\* busy or with an error
Failed(t) ==
    \/ stmt[t] = nullptr
    \/ attempts[t] = 0
    \/ rc[t] # "DONE"

DirectsToLog(msg) ==
    msg \in { "Error: Failed to add the book. Check logs for details.",
              "Error: Failed to delete the book. Check logs for details.",
              "Error: Failed to update the book. Check logs for details." }

\* C15: every operation that met a failure (a write that returns false, a
\* search or display whose query did not compile, bind or step to its end)
\* prints a message that tells the user to check the logs.
C15_FailureMessage ==
    \A t \in Threads :
       (pc[t] = "ret" /\ Failed(t))
       => DirectsToLog(Message(op[t], ret[t], results[t]))

\* the records of a set in ascending order of id
RECURSIVE Ascending(_)
Ascending(rows) ==
    IF rows = {} THEN << >>
    ELSE LET r == CHOOSE x \in rows : \A y \in rows : x.id <= y.id
         IN  << r >> \o Ascending(rows \ { r })

\* the rows of the table the operation's query selects
Selected(o, tbl) ==
    IF o.kind = "searchBook"
    THEN { r \in tbl : \/ Like(r.title, searchPattern(o.keyword))
                       \/ Like(r.author, searchPattern(o.keyword)) }
    ELSE tbl

\* the complete result of the operation's query on the table
Listing(o, tbl) == Ascending(Selected(o, tbl))

IsPrefix(p, q) == Len(p) <= Len(q) /\ \A i \in 1..Len(p) : p[i] = q[i]

\* a step result that is neither a row, nor done, nor a busy that is retried
StepError(code, n) ==
    /\ code \notin { "ROW", "DONE" }
    /\ ~(code = "BUSY" /\ n < SQLITE_MAX_RETRIES)

\* C16 (one caller at a time): a step of a read that ends with an error (a
\* busy step once SQLITE_MAX_RETRIES retries are used up) is the scan's last:
\* an ERROR is logged and the rows collected so far are returned as they are;
\* they are, in order, the first rows of the query's result, one per step
\* that gave a row.
C16_PartialResults ==
    /\ [][\A t \in Threads :
            (pc[t] = "q_step" /\ attempts'[t] > attempts[t] /\ StepError(rc'[t], retries[t]))
            => /\ pc'[t] = "ret"
               /\ ret'[t] = "rows"
               /\ error_logged'[t]
               /\ results'[t] = results[t]]_vars
    /\ [](\A t \in Threads :
            (pc[t] = "ret" /\ IsRead(op[t]) /\ attempts[t] > 0 /\ rc[t] # "DONE")
            => /\ error_logged[t]
               /\ rc[t] = "BUSY" /\ retries[t] = SQLITE_MAX_RETRIES
               /\ Len(results[t]) = attempts[t] - (retries[t] + 1)
               /\ IsPrefix(results[t], Listing(op[t], books)))

\* a scan that had read one of two rows gave up on a busy store
C16_Witness ==
    /\ pc["t1"] = "ret" /\ IsRead(op["t1"])
    /\ rc["t1"] = "BUSY"
    /\ Len(results["t1"]) = 1
    /\ Len(Listing(op["t1"], books)) = 2
    /\ error_logged["t1"]

\* C17 (one caller at a time): deleteBook(id) for an id the table does not
\* hold leaves the table as it is and, when its statement was compiled, bound
\* and not refused as busy to the end, returns true; and after a deleteBook
\* that returned true the table does not hold the id, so that a second
\* deleteBook(id) is such a call.
C17_IdempotentDelete ==
    \A t \in Threads :
       Returned(t, "deleteBook")
       => /\ op[t].id \notin RowIds(before[t])
             => /\ books = before[t]
                /\ (stmt[t] # nullptr /\ attempts[t] > 0 /\ rc[t] # "BUSY")
                   => (ret[t] = "true" /\ rc[t] = "DONE")
          /\ ret[t] = "true" => op[t].id \notin RowIds(books)

\* deleteBook for an id that is not among the records has returned true
C17_Witness ==
    /\ Returned("t1", "deleteBook")
    /\ before["t1"] # {}
    /\ op["t1"].id \notin RowIds(before["t1"])
    /\ ret["t1"] = "true"
    /\ books = before["t1"]

\* the records a write that returned true leaves, given those before it: an
\* add puts its record in, an update replaces the title and author of the
\* record with its id if there is one, a delete takes the record with its id out
Expected(o, tbl) ==
    LET others == { r \in tbl : r.id # o.id }
    IN  CASE o.kind = "addBook" -> tbl \cup { Row(o.id, o.title, o.author) }
          [] o.kind = "updateBook" ->
                IF o.id \in RowIds(tbl)
                THEN others \cup { Row(o.id, o.title, o.author) } ELSE tbl
          [] o.kind = "deleteBook" -> others

\* C18 (one caller at a time): a write that returns true leaves exactly the
\* records its call stands for and one that returns false leaves the records
\* as they were, no two records share an id, and a displayBooks whose scan
\* ran to its end returns every record of the table once, with its id, title
\* and author, in ascending order of id.
C18_RoundTrip ==
    /\ \A r1, r2 \in books : r1.id = r2.id => r1 = r2
    /\ \A t \in Threads :
          /\ (pc[t] = "ret" /\ IsWrite(op[t]))
             => books = (IF ret[t] = "true" THEN Expected(op[t], before[t]) ELSE before[t])
          /\ (Returned(t, "addBook") /\ ret[t] = "true") => op[t].id \notin RowIds(before[t])
          /\ (Returned(t, "displayBooks") /\ rc[t] = "DONE")
             => results[t] = Ascending(books)

\* displayBooks has returned the two records of the table
C18_Witness ==
    /\ Returned("t1", "displayBooks")
    /\ rc["t1"] = "DONE"
    /\ Len(results["t1"]) = 2
    /\ results["t1"][1].id = 1 /\ results["t1"][2].id = 2
    /\ results["t1"][1].title # results["t1"][1].author

\* the text with its letters in lower case
Fold(txt) == [i \in 1..Len(txt) |-> Lower(txt[i])]

\* the keyword occurs in the text as a substring, letter case aside
Contains(text, kw) ==
    \E i \in 0..(Len(text) - Len(kw)) :
       SubSeq(Fold(text), i + 1, i + Len(kw)) = Fold(kw)

\* C19: a searchBook whose scan ran to its end returns exactly the records
\* whose title or author contains the keyword as a substring, letter case
\* aside, in ascending order of id (none when no record does).
C19_SubstringSearch ==
    \A t \in Threads :
       (Returned(t, "searchBook") /\ rc[t] = "DONE")
       => results[t] = Ascending({ r \in books : \/ Contains(r.title, op[t].keyword)
                                                 \/ Contains(r.author, op[t].keyword) })

\* C20: a read that ran to its end while no caller was writing and the table
\* stayed as it was at the call returns the complete result of its own query,
\* every selected record once, whatever another reader did in the meantime.
C20_IndependentReads ==
    \A t \in Threads :
       (/\ pc[t] = "ret" /\ IsRead(op[t]) /\ rc[t] = "DONE"
        /\ books = before[t]
        /\ \A u \in Threads : ~IsWrite(op[u]))
       => results[t] = Listing(op[t], books)

\* C21: in a read scan every step has a retry budget of its own: a step
\* refused as busy right after a step that gave a row is retried, after a
\* delay of BACKOFF_BASE_MS, whatever retries earlier steps of the scan used.
C21_PerStepBudget ==
    [][\A t \in Threads :
         (pc[t] = "q_step" /\ rc[t] = "ROW" /\ rc'[t] = "BUSY")
         => (pc'[t] = "q_sleep" /\ Backoff(retries'[t]) = BACKOFF_BASE_MS)]_vars

\* C22: a reader holds the connection lock, in shared mode, exactly while it
\* is at a step: not while it reads a row, sleeps or is between two steps;
\* no reader ever holds it exclusively; and a writer that waits for the lock
\* while the other caller is a reader not at a step can take it at once.
C22_ReadLockPerStep ==
    \A t \in Threads :
       /\ IsRead(op[t]) => /\ HoldsShared(db_mutex, t) <=> pc[t] = "q_step"
                           /\ ~HoldsExclusive(db_mutex, t)
       /\ (/\ pc[t] = "w_lock"
           /\ \A u \in Threads \ { t } :
                 IsRead(op[u]) /\ pc[u] \in { "q_lock", "q_row", "q_sleep" })
          => ENABLED WLock(t)

\* both callers are at a step of a scan, each holding the lock in shared mode
C22_Witness ==
    /\ \A t \in Threads : pc[t] = "q_step" /\ HoldsShared(db_mutex, t)
    /\ books # {}

\* C23: an operation that fails to bind a parameter goes from the bind loop
\* straight to its return without a change to the table, the statements or
\* the connection lock; at its return it has stepped nothing and holds no
\* lock, the ERROR line names the parameter that failed, counted from 1 (the
\* ones before it were bound), and a write returns false, a read no rows.
C23_BindFailure ==
    /\ [][\A t \in Threads :
            (pc[t] = "bind" /\ pc'[t] = "ret")
            => /\ bind_error'[t] = bound[t] + 1
               /\ books' = books /\ stmts' = stmts /\ db_mutex' = db_mutex]_vars
    /\ [](\A t \in Threads :
            (pc[t] = "ret" /\ bind_error[t] # 0)
            => /\ error_logged[t]
               /\ bind_error[t] \in 1..Len(OpParams(op[t]))
               /\ bind_error[t] = bound[t] + 1
               /\ attempts[t] = 0 /\ rc[t] = "NONE"
               /\ ~HoldsExclusive(db_mutex, t) /\ ~HoldsShared(db_mutex, t)
               /\ ret[t] = (IF IsWrite(op[t]) THEN "false" ELSE "rows")
               /\ results[t] = << >>)

\* a search has failed to bind its second parameter: the other caller has
\* stepped the statement since the first was bound
C23_Witness ==
    /\ pc["t1"] = "ret" /\ op["t1"].kind = "searchBook"
    /\ bind_error["t1"] = 2
    /\ results["t1"] = << >>
    /\ books # {}

\* the handles stmt_cache maps some SQL text to
InCache(cache) == { cache[q] : q \in Templates } \ { nullptr }

\* C24: a handle in stmt_cache is not finalized, and the handle an operation
\* got is the cached one for its text until cleanupStatements has run; an
\* entry of stmt_cache stays as it is in every step but the one of
\* cleanupStatements, which finalizes every cached handle, none of them
\* finalized before, and leaves the cache empty.
C24_CacheStable ==
    /\ [](InCache(stmt_cache) \cap finalized = {})
    /\ [](\A t \in Threads :
            stmt[t] # nullptr
            => (stmt[t] = stmt_cache[OpSql(op[t])] \/ stmt[t] \in finalized))
    /\ [][\A q \in Templates :
            stmt_cache[q] # nullptr
            => \/ stmt_cache'[q] = stmt_cache[q]
               \/ /\ Top.pc = "dtor_finalize"
                  /\ InCache(stmt_cache') = {}
                  /\ finalized' = finalized \cup InCache(stmt_cache)]_vars

\* cleanupStatements has finalized the two handles the cache held
C24_Witness ==
    /\ Cardinality(finalized) = 2
    /\ InCache(stmt_cache) = {}
    /\ DOMAIN stmts = finalized

\* the records of the table whose id is not i
Others(tbl, i) == { r \in tbl : r.id # i }

\* C25 (one caller at a time): whether it returns true or false, updateBook(id, ...)
\* leaves the set of ids and every record with another id as they were, and
\* the record with its id, if it has changed, has the given title and author;
\* deleteBook(id) leaves every record with another id as it was and adds none.
C25_Frame ==
    \A t \in Threads :
       /\ Returned(t, "updateBook")
          => /\ RowIds(books) = RowIds(before[t])
             /\ Others(books, op[t].id) = Others(before[t], op[t].id)
             /\ \A r \in books \ before[t] : r = Row(op[t].id, op[t].title, op[t].author)
       /\ Returned(t, "deleteBook")
          => /\ Others(books, op[t].id) = Others(before[t], op[t].id)
             /\ books \subseteq before[t]

\* an updateBook has changed one of two records
C25_Witness ==
    /\ Returned("t1", "updateBook")
    /\ ret["t1"] = "true"
    /\ Cardinality(before["t1"]) = 2
    /\ books # before["t1"]

\* the thread holds the mutex, in either mode
Holds(m, t) == HoldsExclusive(m, t) \/ HoldsShared(m, t)

\* the mutex the thread is waiting for: its lock call cannot return now
WaitsFor(t) ==
    CASE pc[t] = "gps_shared" /\ ~CanLockShared(stmt_cache_mutex) -> "stmt_cache_mutex"
      [] pc[t] = "gps_excl" /\ ~CanLock(stmt_cache_mutex) -> "stmt_cache_mutex"
      [] pc[t] = "w_lock" /\ ~CanLock(db_mutex) -> "db_mutex"
      [] pc[t] = "q_lock" /\ ~CanLockShared(db_mutex) -> "db_mutex"
      [] OTHER -> "none"

HoldsNamed(name, t) ==
    IF name = "db_mutex" THEN Holds(db_mutex, t) ELSE Holds(stmt_cache_mutex, t)

\* the thread's next step would take the model past MaxRows or MaxTableId
AtBound(t) ==
    \/ pc[t] = "q_row" /\ Len(results[t]) >= MaxRows
    \/ pc[t] = "w_step" /\ MaxRowid(Stepped(stmts[stmt[t]], books).books) > MaxTableId

C27_FailedWriteNoChange ==
    /\ [][books' # books
          => \E t \in Threads :
                /\ pc[t] = "w_step" /\ pc'[t] = "ret"
                /\ rc'[t] = "DONE" /\ ret'[t] = "true"
                /\ \A u \in Threads \ { t } : pc'[u] = pc[u]]_vars
    /\ [](\A t \in Threads :
            (pc[t] = "ret" /\ IsWrite(op[t]) /\ ret[t] = "false")
            => \/ stmt[t] = nullptr
               \/ bind_error[t] # 0
               \/ (attempts[t] > 0 /\ rc[t] \in { "BUSY", "CONSTRAINT" }))

\* an addBook has given up after its sixth busy step and returned false
C27_Witness ==
    /\ Returned("t1", "addBook")
    /\ ret["t1"] = "false"
    /\ rc["t1"] = "BUSY"
    /\ attempts["t1"] = SQLITE_MAX_RETRIES + 1
    /\ books = before["t1"]

\* C28 (one caller at a time): updateBook(id, ...) for an id the table does
\* not hold leaves the table as it is, adding no record, and when its
\* statement was compiled, bound and not refused as busy to the end it
\* returns true, logs no ERROR and prints the success message.
C28_UpdateMissing ==
    \A t \in Threads :
       (Returned(t, "updateBook") /\ op[t].id \notin RowIds(before[t]))
       => /\ books = before[t]
          /\ (stmt[t] # nullptr /\ attempts[t] > 0 /\ rc[t] # "BUSY")
             => /\ ret[t] = "true" /\ rc[t] = "DONE"
                /\ ~error_logged[t]
                /\ Message(op[t], ret[t], results[t]) = "Book updated successfully!"

\* updateBook for an id that is not among the records has returned true
C28_Witness ==
    /\ Returned("t1", "updateBook")
    /\ before["t1"] # {}
    /\ op["t1"].id \notin RowIds(before["t1"])
    /\ ret["t1"] = "true"
    /\ books = before["t1"]

\* C29 (one caller at a time): the step in which a compilation fails leaves
\* stmt_cache and the statements as they are, gives the caller no handle and
\* logs an ERROR; every cached handle is a compiled statement; after the
\* failure the cache has no entry for the text, and a lookup that finds no
\* entry goes on to the exclusive lock and the compilation.
C29_FailureNotCached ==
    /\ [][\A t \in Threads :
            (pc[t] = "gps_compile" /\ pc'[t] = "ret")
            => /\ stmt'[t] = nullptr
               /\ stmt_cache' = stmt_cache /\ stmts' = stmts
               /\ error_logged'[t]]_vars
    /\ [](InCache(stmt_cache) \subseteq DOMAIN stmts)
    /\ [](\A t \in Threads :
            (pc[t] = "ret" /\ stmt[t] = nullptr) => stmt_cache[OpSql(op[t])] = nullptr)
    /\ [][\A t \in Threads :
            (pc[t] = "gps_find" /\ pc'[t] # "gps_find" /\ stmt_cache[OpSql(op[t])] = nullptr)
            => pc'[t] = "gps_excl"]_vars
    /\ [](\A t \in Threads :
            (pc[t] = "gps_compile" /\ stmt_cache[OpSql(op[t])] = nullptr)
            => ENABLED (GpsCompile(t) /\ stmt'[t] # nullptr))

\* a compilation has failed after another text was compiled and used
C29_Witness ==
    /\ pc["t1"] = "ret" /\ stmt["t1"] = nullptr
    /\ error_logged["t1"]
    /\ stmt_cache[OpSql(op["t1"])] = nullptr
    /\ InCache(stmt_cache) # {}

====
